---- MODULE Spec2Model ----
(***************************************************************************)
(* Model of the FFMS client SDK (class FFMS, src/unnamed/part_000) and of  *)
(* the channel helper createWebSocketConnection (src/src/utils.js).        *)
(*                                                                         *)
(* JavaScript values are records [t |-> typeof, v |-> String(value)], so   *)
(* that truthiness, typeof tests and property-key coercion are computed    *)
(* the way the runtime computes them.  Asynchronous methods are split at   *)
(* their awaits: one action issues the request, another one runs the       *)
(* continuation on the response.                                           *)
(***************************************************************************)
EXTENDS Integers, Sequences, FiniteSets

\* Bounds of the model.
MaxConns == 2      \* connections ever created (createWebSocketConnection calls)
MaxCalls == 1      \* validate()/initialize() calls in flight at once
MaxLen   == 2      \* records in one bulk-fetch response

VARIABLES
  validated,   \* this.validated
  reconnect,   \* this.reconnect
  params,      \* this.baseUrl, this.apiKey, this.projectId, this.toggleId
  toggles,     \* this.toggles: property key -> stored value
  ws,          \* this.ws: 0 is null, c > 0 is the c-th connection created
  conns,       \* every connection created so far, in creation order
  timers,      \* pending setTimeout(connectWebSocket): the connections whose close scheduled them
  inflight,    \* pending HTTP requests, by the await they resume
  out,         \* what the last step returned or threw, and the events it emitted
  listens,     \* history: listenForUpdates() calls that did not throw
  userClosed   \* history: disconnect() closed a handle and listenForUpdates() was not called since

vars == <<validated, reconnect, params, toggles, ws, conns, timers, inflight, out, listens, userClosed>>

---------------------------------------------------------------------------
\* JavaScript values

Str(s)  == [t |-> "string", v |-> s]
Num(s)  == [t |-> "number", v |-> s]
Bool(b) == [t |-> "boolean", v |-> IF b THEN "true" ELSE "false"]
Undef   == [t |-> "undefined", v |-> "undefined"]
Null    == [t |-> "object", v |-> "null"]
\* a JSON object; a field the object lacks reads as undefined
Obj(n, s) == [t |-> "object", v |-> "[object Object]", name |-> n, state |-> s]

\* ToBoolean
Truthy(x) ==
  CASE x.t = "string"    -> x.v # ""
    [] x.t = "number"    -> x.v \notin {"0", "NaN"}
    [] x.t = "boolean"   -> x.v = "true"
    [] x.t = "undefined" -> FALSE
    [] OTHER             -> x.v # "null"

\* typeof x === 'boolean'
IsBoolean(x) == x.t = "boolean"

\* the key under which obj[x] = ... stores: String(x)
ToPropertyKey(x) == x.v

\* reading a property of null or undefined throws a TypeError
Nullish(x) == x.t = "undefined" \/ x.v = "null"

---------------------------------------------------------------------------
\* What the server and the transport may deliver

\* response.data.valid of POST /validate (undefined: the field is missing)
ValidValues == {Bool(TRUE), Bool(FALSE), Undef}

\* the outcome of axios.post: a response, or a rejection (transport error, timeout)
ValidateResponses ==
  {[ok |-> TRUE, valid |-> v] : v \in ValidValues} \cup {[ok |-> FALSE, valid |-> Undef]}

\* elements of a bulk-fetch array and decoded live messages
\* ("7" is a string name whose key is also the key of the number 7)
WellFormedRecords ==
  {Obj(Str(n), Bool(b)) : n \in {"a", "b"}, b \in BOOLEAN} \cup {Obj(Str("7"), Bool(FALSE))}
MalformedRecords ==
  { Obj(Num("7"), Bool(TRUE)),     \* name is a number
    Obj(Str(""), Bool(TRUE)),      \* name is the empty string
    Obj(Undef, Bool(FALSE)),       \* name is missing
    Obj(Str("a"), Str("on")),      \* state is not a boolean
    Null }                         \* not a record at all
Elements == WellFormedRecords \cup MalformedRecords

Arrays == UNION {[1..n -> Elements] : n \in 0..MaxLen}

\* the outcome of axios.get: a rejection, or a response whose data is an array,
\* some other object, or nothing
FetchResponses ==
  {[ok |-> FALSE, kind |-> "none", items |-> <<>>]}
    \cup {[ok |-> TRUE, kind |-> k, items |-> <<>>] : k \in {"object", "null"}}
    \cup {[ok |-> TRUE, kind |-> "array", items |-> a] : a \in Arrays}

\* event.data of a live message: text JSON.parse rejects, or text decoding to an element
Messages ==
  {[json |-> FALSE, value |-> Undef]} \cup {[json |-> TRUE, value |-> e] : e \in Elements}

\* names a caller asks getFlag for
QueryNames == {"a", "b", "7", "missing"}

---------------------------------------------------------------------------
\* The flag cache

\* a truthiness test of the entry in place of hasOwnProperty
HasTruthy(t, k) == k \in DOMAIN t /\ Truthy(t[k])

\* this.toggles.hasOwnProperty(k)
HasOwn(t, k) == k \in DOMAIN t

\* this.toggles[k] = v
Assign(t, k, v) == [x \in DOMAIN t \cup {k} |-> IF x = k THEN v ELSE t[x]]

\* toggle.name && typeof toggle.state === 'boolean'
Accepted(e) == Truthy(e.name) /\ IsBoolean(e.state)

\* the body of the forEach callback and of the message handler's if
StoreToggle(t, e) == IF Accepted(e) THEN Assign(t, ToPropertyKey(e.name), e.state) ELSE t

\* response.data.forEach(...): stops at the first element whose property read throws
RECURSIVE ForEachToggle(_, _)
ForEachToggle(t, items) ==
  IF items = <<>> THEN [toggles |-> t, threw |-> FALSE]
  ELSE IF Nullish(Head(items)) THEN [toggles |-> t, threw |-> TRUE]
  ELSE ForEachToggle(StoreToggle(t, Head(items)), Tail(items))

\* response.data alone, without Array.isArray
IsTruthyData(r) == r.kind # "null"

\* response.data && Array.isArray(response.data)
IsArrayData(r) == r.kind # "null" /\ r.kind = "array"

\* any response counts as valid
ValidationPassedAnyResponse(r) == r.ok

\* response.data.valid
ValidationPassed(r) == r.ok /\ Truthy(r.valid)

---------------------------------------------------------------------------
\* Events and results

\* the empty object {} the constructor stores in this.toggles
EmptyCache == [k \in {} |-> Undef]

Emit0 == <<>>
EvInitialized(t)    == [type |-> "initialized", cache |-> t]
EvFlagUpdated(n, s) == [type |-> "flagUpdated", name |-> n, state |-> s]
EvDisconnected      == [type |-> "disconnected"]
EvError             == [type |-> "error"]

Result(op, res, ev) == [op |-> op, res |-> res, ev |-> ev]

InFlight == inflight.validate + inflight.initValidate + inflight.initFetch

\* the four required options of a well-configured client
GoodParams ==
  [baseUrl |-> Str("http://host"), apiKey |-> Str("key"),
   projectId |-> Str("p1"), toggleId |-> Str("t1")]

Init ==
  /\ validated = FALSE
  /\ reconnect \in BOOLEAN
  /\ params = GoodParams
  /\ toggles = EmptyCache
  /\ ws = 0
  /\ conns = <<>>
  /\ timers = {}
  /\ inflight = [validate |-> 0, initValidate |-> 0, initFetch |-> 0]
  /\ out = Result("constructor", "ok", Emit0)
  /\ listens = 0
  /\ userClosed = FALSE

channel == <<ws, conns, timers, listens, userClosed>>

---------------------------------------------------------------------------
\* new FFMS({baseUrl, apiKey, projectId, toggleId, reconnect})

\* the options object: each required option given, missing or empty;
\* reconnect given or missing
ConstructorArgs ==
  [baseUrl   : {GoodParams.baseUrl, Undef, Str("")},
   apiKey    : {GoodParams.apiKey, Undef, Str("")},
   projectId : {GoodParams.projectId, Undef, Str("")},
   toggleId  : {GoodParams.toggleId, Undef, Str("")},
   reconnect : {Undef, Bool(TRUE), Bool(FALSE)}]

\* the object before its constructor ran: no field is set yet, so each field
\* starts at any value of its kind and the constructor has to overwrite it
NoParams == [baseUrl |-> Undef, apiKey |-> Undef, projectId |-> Undef, toggleId |-> Undef]

NewInit ==
  /\ validated \in BOOLEAN
  /\ reconnect \in BOOLEAN
  /\ params = NoParams
  /\ toggles \in {EmptyCache, [k \in {"a"} |-> Bool(TRUE)]}
  /\ ws \in {0, 1}
  /\ conns = <<>>
  /\ timers = {}
  /\ inflight = [validate |-> 0, initValidate |-> 0, initFetch |-> 0]
  /\ out = Result("new", "pending", Emit0)
  /\ listens = 0
  /\ userClosed = FALSE

\* the required-options test without toggleId
MissingRequiredButToggleId(a) ==
  ~Truthy(a.baseUrl) \/ ~Truthy(a.apiKey) \/ ~Truthy(a.projectId)

\* !baseUrl || !apiKey || !projectId || !toggleId
MissingRequired(a) ==
  ~Truthy(a.baseUrl) \/ ~Truthy(a.apiKey) \/ ~Truthy(a.projectId) \/ ~Truthy(a.toggleId)

\* the destructuring default: reconnect = true
ReconnectOption(a) == IF a.reconnect.t = "undefined" THEN Bool(TRUE) ELSE a.reconnect

\* the constructor on the options a
Construct(a) ==
  /\ out.op = "new"
  /\ IF MissingRequired(a)
       THEN /\ out' = Result("constructor", "throw", Emit0)
            /\ UNCHANGED <<validated, reconnect, params, toggles, ws>>
       ELSE /\ params' = [baseUrl |-> a.baseUrl, apiKey |-> a.apiKey,
                          projectId |-> a.projectId, toggleId |-> a.toggleId]
            /\ reconnect' = Truthy(ReconnectOption(a))
            /\ toggles' = EmptyCache
            /\ ws' = 0
            /\ validated' = FALSE
            /\ out' = Result("constructor", "ok", Emit0)
  /\ UNCHANGED <<conns, timers, inflight, listens, userClosed>>

\* a constructor that threw leaves no client to call
Constructed == out.op # "new" /\ ~(out.op = "constructor" /\ out.res = "throw")

---------------------------------------------------------------------------
\* validate()

\* the call, up to its await: POST /validate is sent
Validate ==
  /\ InFlight < MaxCalls
  /\ inflight' = [inflight EXCEPT !.validate = @ + 1]
  /\ out' = Result("validate", "pending", Emit0)
  /\ UNCHANGED <<validated, reconnect, params, toggles, channel>>

\* a continuation that stores the outcome, clearing validated on a failure
ValidateDoneResets(r) ==
  /\ inflight.validate > 0
  /\ inflight' = [inflight EXCEPT !.validate = @ - 1]
  /\ validated' = ValidationPassed(r)
  /\ out' = Result("validate", IF ValidationPassed(r) THEN "true" ELSE "throw", Emit0)
  /\ UNCHANGED <<reconnect, params, toggles, channel>>

\* the continuation of validate() on the outcome r of the request
ValidateDone(r) ==
  /\ inflight.validate > 0
  /\ inflight' = [inflight EXCEPT !.validate = @ - 1]
  /\ IF ValidationPassed(r)
       THEN validated' = TRUE /\ out' = Result("validate", "true", Emit0)
       ELSE validated' = validated /\ out' = Result("validate", "throw", Emit0)
  /\ UNCHANGED <<reconnect, params, toggles, channel>>

---------------------------------------------------------------------------
\* initialize()

\* initialize() that goes straight to the bulk fetch
InitializeWithoutValidate ==
  /\ InFlight < MaxCalls
  /\ inflight' = [inflight EXCEPT !.initFetch = @ + 1]
  /\ out' = Result("initialize", "pending", Emit0)
  /\ UNCHANGED <<validated, reconnect, params, toggles, channel>>

\* the call, up to its first await: validate() when not validated, else GET feature-flags
Initialize ==
  /\ InFlight < MaxCalls
  /\ IF ~validated
       THEN inflight' = [inflight EXCEPT !.initValidate = @ + 1]
       ELSE inflight' = [inflight EXCEPT !.initFetch = @ + 1]
  /\ out' = Result("initialize", "pending", Emit0)
  /\ UNCHANGED <<validated, reconnect, params, toggles, channel>>

\* the continuation after await this.validate(): rethrows, or sends GET feature-flags
InitializeValidated(r) ==
  /\ inflight.initValidate > 0
  /\ IF ValidationPassed(r)
       THEN /\ validated' = TRUE
            /\ inflight' = [inflight EXCEPT !.initValidate = @ - 1, !.initFetch = @ + 1]
            /\ out' = Result("initialize", "pending", Emit0)
       ELSE /\ validated' = validated
            /\ inflight' = [inflight EXCEPT !.initValidate = @ - 1]
            /\ out' = Result("initialize", "throw", Emit0)
  /\ UNCHANGED <<reconnect, params, toggles, channel>>

\* the continuation after await axios.get(...)
InitializeFetched(r) ==
  /\ inflight.initFetch > 0
  /\ inflight' = [inflight EXCEPT !.initFetch = @ - 1]
  /\ IF r.ok /\ IsArrayData(r)
       THEN LET done == ForEachToggle(toggles, r.items) IN
            /\ toggles' = done.toggles
            /\ out' = IF done.threw
                        THEN Result("initialize", "throw", Emit0)
                        ELSE Result("initialize", "ok", <<EvInitialized(done.toggles)>>)
       ELSE /\ toggles' = toggles
            /\ out' = Result("initialize", "throw", Emit0)
  /\ UNCHANGED <<validated, reconnect, params, channel>>

---------------------------------------------------------------------------
\* getFlag(toggleName)

GetFlag(n) ==
  /\ out' = IF ~HasOwn(toggles, n)
              THEN Result("getFlag", "throw", Emit0)
              ELSE Result("getFlag", toggles[n].v, Emit0)
  /\ UNCHANGED <<validated, reconnect, params, toggles, inflight, channel>>

---------------------------------------------------------------------------
\* The live channel

\* readyState values in which the transport has not yet reported the close
Live(c) == conns[c].st \in {"connecting", "open"}
Unclosed(c) == conns[c].st # "closed"

ConnIds == 1..Len(conns)

\* connections and timers still to come fit the model's bound
Room == Len(conns) + Cardinality(timers) < MaxConns

\* connectWebSocket(): a new connection, stored in this.ws, with its three observers.
\* by is the connection whose close scheduled the call (0: listenForUpdates itself).
ConnectWebSocket(by) ==
  /\ conns' = Append(conns, [st |-> "connecting", by |-> by, manual |-> FALSE, disc |-> 0])
  /\ ws' = Len(conns) + 1

\* listenForUpdates() without its validated check
ListenForUpdatesUnchecked ==
  /\ Room
  /\ ConnectWebSocket(0)
  /\ listens' = listens + 1
  /\ userClosed' = FALSE
  /\ out' = Result("listenForUpdates", "ok", Emit0)
  /\ UNCHANGED <<validated, reconnect, params, toggles, timers, inflight>>

\* listenForUpdates()
ListenForUpdates ==
  /\ validated => Room
  /\ IF ~validated
       THEN /\ out' = Result("listenForUpdates", "throw", Emit0)
            /\ UNCHANGED <<ws, conns, listens, userClosed>>
       ELSE /\ ConnectWebSocket(0)
            /\ listens' = listens + 1
            /\ userClosed' = FALSE
            /\ out' = Result("listenForUpdates", "ok", Emit0)
  /\ UNCHANGED <<validated, reconnect, params, toggles, timers, inflight>>

\* the transport completes the handshake of connection c (ws.onopen only logs)
OnOpen(c) ==
  /\ conns[c].st = "connecting"
  /\ conns' = [conns EXCEPT ![c].st = "open"]
  /\ out' = Result("onopen", "ok", Emit0)
  /\ UNCHANGED <<validated, reconnect, params, toggles, ws, timers, inflight, listens, userClosed>>

\* ws.onmessage that updates the cache without emitting flagUpdated
OnMessageSilent(c, m) ==
  /\ conns[c].st \in {"open", "closing"}
  /\ IF m.json /\ ~Nullish(m.value) /\ Accepted(m.value)
       THEN toggles' = StoreToggle(toggles, m.value)
       ELSE toggles' = toggles
  /\ out' = Result("onmessage", "ok", Emit0)
  /\ UNCHANGED <<validated, reconnect, params, inflight, channel>>

\* ws.onmessage of connection c on payload m; every throw is caught and logged
OnMessage(c, m) ==
  /\ conns[c].st \in {"open", "closing"}
  /\ IF m.json /\ ~Nullish(m.value) /\ Accepted(m.value)
       THEN /\ toggles' = StoreToggle(toggles, m.value)
            /\ out' = Result("onmessage", "ok", <<EvFlagUpdated(m.value.name, m.value.state)>>)
       ELSE /\ toggles' = toggles
            /\ out' = Result("onmessage", "ok", Emit0)
  /\ UNCHANGED <<validated, reconnect, params, inflight, channel>>

\* ws.onclose that never schedules a reconnect
OnCloseNoRetry(c) ==
  /\ Unclosed(c)
  /\ reconnect => Room
  /\ conns' = [conns EXCEPT ![c].st = "closed", ![c].disc = @ + 1]
  /\ out' = Result("onclose", "ok", <<EvDisconnected>>)
  /\ UNCHANGED <<validated, reconnect, params, toggles, ws, timers, inflight, listens, userClosed>>

\* ws.onclose that schedules a reconnect whatever this.reconnect is
OnCloseAlwaysRetry(c) ==
  /\ Unclosed(c)
  /\ Room
  /\ conns' = [conns EXCEPT ![c].st = "closed", ![c].disc = @ + 1]
  /\ timers' = timers \cup {c}
  /\ out' = Result("onclose", "ok", <<EvDisconnected>>)
  /\ UNCHANGED <<validated, reconnect, params, toggles, ws, inflight, listens, userClosed>>

\* ws.onclose of connection c: the transport reports the connection closed
OnClose(c) ==
  /\ Unclosed(c)
  /\ reconnect => Room
  /\ conns' = [conns EXCEPT ![c].st = "closed", ![c].disc = @ + 1]
  /\ timers' = IF reconnect THEN timers \cup {c} ELSE timers
  /\ out' = Result("onclose", "ok", <<EvDisconnected>>)
  /\ UNCHANGED <<validated, reconnect, params, toggles, ws, inflight, listens, userClosed>>

\* ws.onerror that also drops the handle
OnErrorDropsHandle(c) ==
  /\ Unclosed(c)
  /\ ws' = 0
  /\ out' = Result("onerror", "ok", <<EvError>>)
  /\ UNCHANGED <<validated, reconnect, params, toggles, inflight, conns, timers, listens, userClosed>>

\* ws.onerror of connection c
OnError(c) ==
  /\ Unclosed(c)
  /\ out' = Result("onerror", "ok", <<EvError>>)
  /\ UNCHANGED <<validated, reconnect, params, toggles, inflight, channel>>

\* a timer that stays set after firing (setInterval in place of setTimeout)
TimerRepeats(c) ==
  /\ c \in timers
  /\ Len(conns) <= MaxConns
  /\ ConnectWebSocket(c)
  /\ out' = Result("timer", "ok", Emit0)
  /\ UNCHANGED <<validated, reconnect, params, toggles, timers, inflight, listens, userClosed>>

\* the timer set by the close of connection c fires: connectWebSocket()
TimerFired(c) ==
  /\ c \in timers
  /\ timers' = timers \ {c}
  /\ ConnectWebSocket(c)
  /\ out' = Result("timer", "ok", Emit0)
  /\ UNCHANGED <<validated, reconnect, params, toggles, inflight, listens, userClosed>>

\* ws.close(): starts the closing handshake of a connection the transport has not closed
CloseSocket(cs, c) ==
  IF cs[c].st \in {"connecting", "open"}
    THEN [cs EXCEPT ![c].st = "closing", ![c].manual = TRUE]
    ELSE cs

\* disconnect()
Disconnect ==
  /\ IF ws # 0
       THEN /\ conns' = [CloseSocket(conns, ws) EXCEPT ![ws].disc = @ + 1]
            /\ ws' = 0
            /\ userClosed' = TRUE
            /\ out' = Result("disconnect", "ok", <<EvDisconnected>>)
       ELSE /\ out' = Result("disconnect", "ok", Emit0)
            /\ UNCHANGED <<ws, conns, userClosed>>
  /\ UNCHANGED <<validated, reconnect, params, toggles, timers, inflight, listens>>

---------------------------------------------------------------------------
Next ==
  \/ Validate
  \/ \E r \in ValidateResponses : ValidateDone(r)
  \/ Initialize
  \/ \E r \in ValidateResponses : InitializeValidated(r)
  \/ \E r \in FetchResponses : InitializeFetched(r)
  \/ \E n \in QueryNames : GetFlag(n)
  \/ ListenForUpdates
  \/ \E c \in ConnIds : OnOpen(c)
  \/ \E c \in ConnIds, m \in Messages : OnMessage(c, m)
  \/ \E c \in ConnIds : OnClose(c)
  \/ \E c \in ConnIds : OnError(c)
  \/ \E c \in ConnIds : TimerFired(c)
  \/ Disconnect

Spec == Init /\ [][Next]_vars

\* the client from its construction on
NewNext ==
  \/ \E a \in ConstructorArgs : Construct(a)
  \/ Constructed /\ Next

NewSpec == NewInit /\ [][NewNext]_vars

\* setTimeout runs its callback: a pending reconnect timer eventually fires
FairSpec == Spec /\ \A c \in 1..MaxConns : WF_vars(TimerFired(c))

---------------------------------------------------------------------------
\* Properties

\* C1: while validated is false, listenForUpdates() throws, creates no
\* connection and leaves this.ws, the timers and the flag cache as they were.
C1_ListenRequiresValidation ==
  [][(out'.op = "listenForUpdates" /\ ~validated) =>
        /\ out'.res = "throw"
        /\ out'.ev = Emit0
        /\ conns' = conns
        /\ ws' = ws
        /\ timers' = timers
        /\ toggles' = toggles]_vars

\* listenForUpdates() threw on a client that is not validated and has no connection
C1_Witness ==
  /\ ~validated
  /\ out.op = "listenForUpdates"
  /\ out.res = "throw"
  /\ conns = <<>>
  /\ ws = 0

\* C2: a connection that disconnect() closed while it was connecting or open
\* is closing or closed, is no longer the handle, and accounts for exactly one
\* `disconnected` event (disconnect()'s own plus its close observer's).
C2_DisconnectEmitsOnce ==
  \A c \in ConnIds :
    conns[c].manual => (~Live(c) /\ ws # c /\ conns[c].disc = 1)

\* C3: after disconnect() closed the handle, no connection is created until
\* listenForUpdates() is called again.
C3_DisconnectIsTerminal ==
  [][(userClosed /\ userClosed') => Len(conns') = Len(conns)]_vars

C5_NoReconnectWhenDisabled ==
  /\ [](~reconnect => (Len(conns) = listens /\ timers = {}))
  /\ [][\A c \in ConnIds :
          (~reconnect /\ Unclosed(c) /\ conns'[c].st = "closed") =>
             /\ out'.ev = <<EvDisconnected>>
             /\ Len(conns') = Len(conns)
             /\ ws' = ws]_vars
  /\ [][(~reconnect /\ Len(conns') > Len(conns)) => out'.op = "listenForUpdates"]_vars

\* the transport closed a connection of a client with reconnect disabled
C5_Witness ==
  /\ ~reconnect
  /\ out.op = "onclose"
  /\ \E c \in ConnIds : conns[c].st = "closed" /\ ~conns[c].manual /\ conns[c].disc = 1

\* a well-formed flag record: its name a non-empty string, its state a boolean
WellFormed(e) ==
  /\ ~Nullish(e)
  /\ e.name.t = "string"
  /\ e.name.v # ""
  /\ e.state.t = "boolean"

\* the keys whose entry a step created or changed
Written == {k \in DOMAIN toggles' : k \notin DOMAIN toggles \/ toggles'[k] # toggles[k]}

\* C6: every cache entry a step creates or changes comes from a well-formed
\* record (name a non-empty string, state a boolean) delivered in that step, by
\* bulk fetch or by live message, with that name and that state.
C6_OnlyWellFormedStored ==
  [][\A k \in Written :
        \/ \E r \in FetchResponses :
             /\ InitializeFetched(r)
             /\ \E i \in 1..Len(r.items) :
                  /\ WellFormed(r.items[i])
                  /\ r.items[i].name = Str(k)
                  /\ r.items[i].state = toggles'[k]
        \/ \E c \in ConnIds, m \in Messages :
             /\ OnMessage(c, m)
             /\ m.json
             /\ WellFormed(m.value)
             /\ m.value.name = Str(k)
             /\ m.value.state = toggles'[k]]_vars

\* C7: a bulk fetch is in flight only on a validated client; initialize() on
\* an unvalidated client sends the validation request and no bulk fetch; when
\* that validation fails, initialize() throws, sends no bulk fetch, emits
\* nothing and leaves validated and the cache as they were.
C7_InitializeValidatesFirst ==
  /\ [](inflight.initFetch > 0 => validated)
  /\ [][(out'.op = "initialize" /\ InFlight' = InFlight + 1 /\ ~validated) =>
          /\ inflight'.initValidate = inflight.initValidate + 1
          /\ inflight'.initFetch = inflight.initFetch]_vars
  /\ [][\A r \in ValidateResponses :
          (InitializeValidated(r) /\ ~(r.ok /\ r.valid = Bool(TRUE))) =>
             /\ out'.op = "initialize"
             /\ out'.res = "throw"
             /\ out'.ev = Emit0
             /\ inflight'.initFetch = inflight.initFetch
             /\ validated' = validated
             /\ toggles' = toggles]_vars

\* initialize() threw on a fresh client because its validation failed
C7_Witness ==
  /\ out.op = "initialize"
  /\ out.res = "throw"
  /\ ~validated
  /\ toggles = EmptyCache
  /\ InFlight = 0

\* C8: the continuation of validate() sets validated and returns true exactly
\* when the response has valid = true; otherwise it throws and leaves
\* validated as it was; no step of validate() touches the cache or the handle.
C8_ValidateSetsValidated ==
  /\ [][\A r \in ValidateResponses :
          ValidateDone(r) =>
             /\ (r.ok /\ r.valid = Bool(TRUE)) <=> (validated' /\ out'.res = "true")
             /\ ~(r.ok /\ r.valid = Bool(TRUE)) =>
                  (out'.res = "throw" /\ validated' = validated)]_vars
  /\ [][out'.op = "validate" =>
          (toggles' = toggles /\ ws' = ws /\ conns' = conns /\ timers' = timers)]_vars

\* a repeated validate() succeeded on a client with a filled cache and a handle
C8_Witness ==
  /\ out.op = "validate"
  /\ out.res = "true"
  /\ DOMAIN toggles # {}
  /\ ws # 0

\* the cache t overridden by the well-formed records of items, in order
RECURSIVE Merged(_, _)
Merged(t, items) ==
  IF items = <<>> THEN t
  ELSE LET e == Head(items)
           u == IF WellFormed(e)
                  THEN [k \in DOMAIN t \cup {e.name.v} |->
                          IF k = e.name.v THEN e.state ELSE t[k]]
                  ELSE t
       IN Merged(u, Tail(items))

\* C9: a successful initialize() leaves the cache equal to the cache before
\* overridden by the well-formed records of the response in order, and emits
\* exactly one `initialized` event carrying it.
C9_InitializeMerges ==
  [][\A r \in FetchResponses :
        (InitializeFetched(r) /\ out'.res = "ok") =>
           /\ toggles' = Merged(toggles, r.items)
           /\ out'.ev = <<EvInitialized(toggles')>>]_vars

\* C10: getFlag(n) returns the stored boolean when n is a key of the cache and
\* throws otherwise; it changes nothing, emits nothing, sends no request, and
\* can be called in every state.
C10_GetFlagReads ==
  /\ [](\A n \in QueryNames : ENABLED GetFlag(n))
  /\ [][\A n \in QueryNames :
          GetFlag(n) =>
             /\ out'.res = (IF n \in DOMAIN toggles
                              THEN (IF toggles[n] = Bool(TRUE) THEN "true" ELSE "false")
                              ELSE "throw")
             /\ out'.ev = Emit0
             /\ UNCHANGED <<validated, toggles, ws, conns, timers, inflight>>]_vars

\* getFlag returned false while a request was in flight and the channel was open
C10_Witness ==
  /\ out.op = "getFlag"
  /\ out.res = "false"
  /\ InFlight > 0
  /\ ws # 0
  /\ conns[ws].st = "open"

\* C11: a well-formed live message {name, state} sets the cache entry of
\* name to state and emits exactly one flagUpdated(name, state), on whichever
\* connection it arrives.
C11_LiveMessageApplied ==
  [][\A c \in ConnIds, m \in Messages :
        (out'.op = "onmessage" /\ m.json /\ WellFormed(m.value) /\ OnMessage(c, m)) =>
           /\ m.value.name.v \in DOMAIN toggles'
           /\ toggles'[m.value.name.v] = m.value.state
           /\ out'.ev = <<EvFlagUpdated(m.value.name, m.value.state)>>
           /\ out'.res = "ok"]_vars

\* after a listenForUpdates(), a closure and a reconnect, the message
\* {name: "a", state: false} replaced a cached true on the new connection
C11_Witness ==
  /\ out.op = "onmessage"
  /\ out.ev = <<EvFlagUpdated(Str("a"), Bool(FALSE))>>
  /\ "a" \in DOMAIN toggles
  /\ toggles["a"] = Bool(FALSE)
  /\ Len(conns) = 2
  /\ conns[2].by = 1
  /\ ws = 2

\* C12: a live message that does not parse or is not a well-formed record
\* changes no cache entry, emits nothing, raises nothing and leaves the
\* connection and the handle as they were.
C12_MalformedMessageDropped ==
  [][\A c \in ConnIds, m \in Messages :
        (out'.op = "onmessage" /\ ~(m.json /\ WellFormed(m.value)) /\ OnMessage(c, m)) =>
           /\ toggles' = toggles
           /\ out'.ev = Emit0
           /\ out'.res = "ok"
           /\ conns' = conns
           /\ ws' = ws]_vars

\* C13: when the bulk fetch is rejected or its body is not an array,
\* initialize() throws, leaves the cache as it was and emits nothing.
C13_BadFetchLeavesCache ==
  [][\A r \in FetchResponses :
        (out'.op = "initialize" /\ (~r.ok \/ r.kind # "array") /\ InitializeFetched(r)) =>
           /\ out'.op = "initialize"
           /\ out'.res = "throw"
           /\ out'.ev = Emit0
           /\ toggles' = toggles]_vars

\* initialize() threw on a validated client whose cache was already filled
C13_Witness ==
  /\ out.op = "initialize"
  /\ out.res = "throw"
  /\ validated
  /\ DOMAIN toggles = {"a", "b"}
  /\ InFlight = 0

\* C14: disconnect() with no active channel (no handle, or a handle whose
\* connection the transport already closed) emits nothing and changes nothing.
C14_DisconnectIdleIsNoOp ==
  [][(out'.op = "disconnect" /\ (ws = 0 \/ ~Live(ws))) =>
        /\ out'.ev = Emit0
        /\ out'.res = "ok"
        /\ UNCHANGED <<validated, toggles, ws, conns, timers, inflight>>]_vars

\* the records of a bulk-fetch array that forEach reaches: those before the
\* first element that is no object
RECURSIVE Reached(_)
Reached(items) ==
  IF items = <<>> \/ Nullish(Head(items)) THEN <<>>
  ELSE <<Head(items)>> \o Reached(Tail(items))

\* the positions of the well-formed records for name k in recs
RecordsFor(k, recs) == {i \in 1..Len(recs) : WellFormed(recs[i]) /\ recs[i].name.v = k}

\* the cache after a step that applied recs holds, for each name, the state of
\* the last well-formed record for it in recs, or else what it held before
AppliedInOrder(recs) ==
  \A k \in DOMAIN toggles \cup DOMAIN toggles' \cup {"a", "b", "7"} :
    LET is == RecordsFor(k, recs) IN
    IF is # {}
      THEN k \in DOMAIN toggles' /\ toggles'[k] = recs[CHOOSE i \in is : \A j \in is : j <= i].state
      ELSE /\ k \in DOMAIN toggles' <=> k \in DOMAIN toggles
           /\ k \in DOMAIN toggles => toggles'[k] = toggles[k]

\* C15: records are applied in arrival order: after each bulk-fetch completion
\* and each live message the cached value of every name is the state of the
\* most recently applied well-formed record for it, a live message emits
\* flagUpdated exactly when it is a well-formed record, and nothing else
\* changes the cache.
C15_AppliedInArrivalOrder ==
  /\ [][\A r \in FetchResponses :
          (out'.op = "initialize" /\ r.ok /\ r.kind = "array" /\ InitializeFetched(r)) =>
             AppliedInOrder(Reached(r.items))]_vars
  /\ [][\A c \in ConnIds, m \in Messages :
          (out'.op = "onmessage" /\ OnMessage(c, m)) =>
             IF m.json /\ WellFormed(m.value)
               THEN /\ AppliedInOrder(<<m.value>>)
                    /\ out'.ev = <<EvFlagUpdated(m.value.name, m.value.state)>>
               ELSE /\ toggles' = toggles
                    /\ out'.ev = Emit0]_vars
  /\ [][toggles' # toggles => out'.op \in {"initialize", "onmessage"}]_vars

\* C16: the constructor throws whenever one of baseUrl, apiKey, projectId,
\* toggleId is missing and then sets no field; given all four as non-empty
\* strings it succeeds with an empty cache, validated false, no handle, the
\* options stored, and reconnect true unless given as false.
C16_ConstructorChecksOptions ==
  [][out.op = "new" => \A a \in ConstructorArgs :
        Construct(a) =>
           /\ (\E f \in {"baseUrl", "apiKey", "projectId", "toggleId"} : a[f] = Undef) =>
                /\ out'.res = "throw"
                /\ UNCHANGED <<validated, reconnect, params, toggles, ws>>
           /\ (\A f \in {"baseUrl", "apiKey", "projectId", "toggleId"} : a[f] = GoodParams[f]) =>
                /\ out'.res = "ok"
                /\ toggles' = EmptyCache
                /\ validated' = FALSE
                /\ ws' = 0
                /\ params' = GoodParams
                /\ reconnect' = (a.reconnect # Bool(FALSE))]_vars

\* the constructor threw and stored no option
C16_Witness ==
  /\ out.op = "constructor"
  /\ out.res = "throw"
  /\ params = NoParams

\* C17: the error observer emits exactly one `error` event and returns; it
\* leaves the connections, the handle, the timers, the cache and validated
\* as they were, and only the close observer sets a reconnect timer.
C17_ErrorOnlyEmits ==
  /\ [][out'.op = "onerror" =>
          /\ out'.ev = <<EvError>>
          /\ out'.res = "ok"
          /\ UNCHANGED <<conns, ws, timers, toggles, validated, inflight>>]_vars
  /\ [][timers' \ timers # {} => out'.op = "onclose"]_vars

\* a transport error was reported on the open connection the handle refers to
C17_Witness ==
  /\ out.op = "onerror"
  /\ out.ev = <<EvError>>
  /\ ws # 0
  /\ conns[ws].st = "open"

\* the connections that are connecting or open
LiveConns == {c \in ConnIds : Live(c)}

\* C18: at most one connection is connecting or open, and it is the one the
\* handle refers to.
C18_SingleLiveChannel ==
  /\ Cardinality(LiveConns) <= 1
  /\ \A c \in LiveConns : ws = c

\* C19: validated starts false, never goes back to false, becomes true only
\* in a validate() continuation on a response with valid = true, and
\* initialize() sends a validation request only while validated is false.
C19_ValidatedMonotonic ==
  /\ ~validated
  /\ [][validated => validated']_vars
  /\ [][(~validated /\ validated') =>
          \E r \in ValidateResponses :
            /\ r.ok
            /\ r.valid = Bool(TRUE)
            /\ ValidateDone(r) \/ InitializeValidated(r)]_vars
  /\ [][inflight'.initValidate > inflight.initValidate => ~validated]_vars

\* a validate() failed on a client that was already validated, which stays so
C19_Witness ==
  /\ validated
  /\ out.op = "validate"
  /\ out.res = "throw"

\* C20: a reconnect timer is set only by the close of its own connection, a
\* timer that fires is gone and opens exactly one connection, and the live
\* connections plus the pending timers never exceed the listenForUpdates()
\* calls that succeeded.
C20_ReconnectDoesNotMultiply ==
  /\ [](Cardinality(LiveConns) + Cardinality(timers) <= listens)
  /\ [][\A c \in timers' \ timers : Unclosed(c) /\ conns'[c].st = "closed"]_vars
  /\ [][out'.op = "timer" =>
          /\ Len(conns') = Len(conns) + 1
          /\ Cardinality(timers') = Cardinality(timers) - 1]_vars

\* one listenForUpdates() call, one closure, one reconnect: one live connection
C20_Witness ==
  /\ listens = 1
  /\ Len(conns) = 2
  /\ conns[1].st = "closed"
  /\ Live(2)
  /\ timers = {}

====
